---------------------------- MODULE Spec2Model ----------------------------
(***************************************************************************)
(* Model of the Suwayomi desktop launcher                                  *)
(* (desktop/tauri/src-tauri/src/launcher.rs and main.rs).                  *)
(*                                                                         *)
(* Strings are sequences of tokens.  A token is one character, except for  *)
(* a few lexical units that the code never splits: the scheme prefix       *)
(* "http://", the host literals "0.0.0.0" and "127.0.0.1", and the         *)
(* percent-escape "%20".  Paths are sequences of path components.          *)
(* Option<T> is a record [some, val].                                       *)
(*                                                                         *)
(* The module is the build for a unix target that is not macOS:            *)
(* cfg(unix) in graceful_terminate, cfg(not(windows)) in java_binary_path. *)
(***************************************************************************)
EXTENDS Integers, Sequences, FiniteSets, TLC

(***************************************************************************)
(* Bounds of the model.                                                    *)
(***************************************************************************)
\* Total number of bootstrap() calls made in one behaviour.
MaxBootstraps == 2
\* Total number of shutdown_child_process() calls made in one behaviour.
MaxShutdowns == 2
\* STARTUP_TIMEOUT measured in polling intervals (scaled down from 200).
StartupTicks == 2
\* SHUTDOWN_TIMEOUT measured in polling intervals (scaled down from 33).
ShutdownTicks == 2

(***************************************************************************)
(* Program constants.                                                      *)
(***************************************************************************)
DEFAULT_IP == <<"127.0.0.1">>
DEFAULT_PORT == 4567
\* u16::MAX, the largest value str::parse::<u16> accepts.
U16_MAX == 65535
\* The port the url crate omits when it serialises an http URL.
HTTP_DEFAULT_PORT == 80

Some(x) == [some |-> TRUE, val |-> x]
None == [some |-> FALSE, val |-> <<>>]
\* The empty Option<Child>; a child is known by its pid.
NoChild == [some |-> FALSE, val |-> 0]

(***************************************************************************)
(* String helpers (std::str).                                              *)
(***************************************************************************)
RECURSIVE TrimStart(_)
TrimStart(s) ==
    IF s # <<>> /\ Head(s) = " " THEN TrimStart(Tail(s)) ELSE s

RECURSIVE TrimEndMatches(_, _)
TrimEndMatches(s, c) ==
    IF s # <<>> /\ s[Len(s)] = c
    THEN TrimEndMatches(SubSeq(s, 1, Len(s) - 1), c)
    ELSE s

Trim(s) == TrimStart(TrimEndMatches(s, " "))

Min(a, b) == IF a < b THEN a ELSE b

StartsWith(s, c) == s # <<>> /\ Head(s) = c

Digits == <<"0", "1", "2", "3", "4", "5", "6", "7", "8", "9">>
DigitSet == {Digits[i] : i \in 1..10}
DigitVal(d) == (CHOOSE i \in 1..10 : Digits[i] = d) - 1

\* Decimal value of a digit string.
RECURSIVE DigitsValue(_)
DigitsValue(ds) ==
    IF ds = <<>> THEN 0
    ELSE 10 * DigitsValue(SubSeq(ds, 1, Len(ds) - 1)) + DigitVal(ds[Len(ds)])

\* format!("{}", n) for an unsigned integer.
RECURSIVE FormatInt(_)
FormatInt(n) ==
    IF n < 10 THEN <<Digits[n + 1]>>
    ELSE Append(FormatInt(n \div 10), Digits[(n % 10) + 1])

\* Mutant of ParseU16: a value that does not fit wraps around.
ParseU16_Wrapping(ds) ==
    IF ds # <<>> /\ (\A i \in 1..Len(ds) : ds[i] \in DigitSet)
    THEN Some(DigitsValue(ds) % (U16_MAX + 1))
    ELSE None

\* str::parse::<u16>() on a string of decimal digits.
ParseU16(ds) ==
    IF ds # <<>> /\ (\A i \in 1..Len(ds) : ds[i] \in DigitSet)
       /\ DigitsValue(ds) <= U16_MAX
    THEN Some(DigitsValue(ds))
    ELSE None

(***************************************************************************)
(* url::Url for http URLs: scheme token, one host token, optional port,    *)
(* path.  Leading and trailing spaces are stripped, a space inside the     *)
(* path is percent-encoded, a space inside the host is an error, an empty  *)
(* host is an error, an empty path serialises as "/", and the default      *)
(* port is dropped.                                                        *)
(***************************************************************************)
HostTokens == {"h", "0.0.0.0", "127.0.0.1"}

\* Index of the first token of s that is in stops, or Len(s) + 1.
RECURSIVE FirstIn(_, _, _)
FirstIn(s, stops, i) ==
    IF i > Len(s) \/ s[i] \in stops THEN i ELSE FirstIn(s, stops, i + 1)

UrlEncodePath(p) == [i \in 1..Len(p) |-> IF p[i] = " " THEN "%20" ELSE p[i]]

UrlParse(raw) ==
    LET s == Trim(raw) IN
    IF ~StartsWith(s, "http://") THEN None
    ELSE
      LET r == Tail(s)
          hostEnd == FirstIn(r, {":", "/"}, 1)
          host == SubSeq(r, 1, hostEnd - 1)
          rest == SubSeq(r, hostEnd, Len(r))
          hasPort == StartsWith(rest, ":")
          portEnd == IF hasPort THEN FirstIn(rest, {"/"}, 1) ELSE 1
          portText == IF hasPort THEN SubSeq(rest, 2, portEnd - 1) ELSE <<>>
          port == ParseU16(portText)
          path == SubSeq(rest, portEnd, Len(rest))
      IN
      IF Len(host) # 1 \/ host[1] \notin HostTokens THEN None
      ELSE IF portText # <<>> /\ ~port.some THEN None
      ELSE Some([host |-> host[1],
                 port |-> IF portText = <<>> \/ port.val = HTTP_DEFAULT_PORT
                          THEN -1 ELSE port.val,
                 path |-> IF path = <<>> THEN <<"/">> ELSE UrlEncodePath(path)])

\* Url::to_string
UrlToString(u) ==
    <<"http://", u.host>>
      \o (IF u.port >= 0 THEN <<":">> \o FormatInt(u.port) ELSE <<>>)
      \o u.path

(***************************************************************************)
(* ConfigResolver.                                                         *)
(***************************************************************************)
normalize_ip(ip) == IF ip = <<"0.0.0.0">> THEN DEFAULT_IP ELSE ip

normalize_subpath(subpath) ==
    IF subpath = <<>> \/ subpath = <<"/">> THEN <<>>
    ELSE
      LET path == TrimEndMatches(Trim(subpath), "/") IN
      IF ~StartsWith(path, "/") THEN <<"/">> \o path ELSE path

build_base_url(ip, port, subpath) ==
    <<"http://">> \o normalize_ip(ip) \o <<":">> \o FormatInt(port)
      \o normalize_subpath(subpath)

normalize_base_url(url) ==
    LET parsed == UrlParse(url) IN
    IF ~parsed.some THEN None
    ELSE
      LET u == IF parsed.val.host = "0.0.0.0"
               THEN [parsed.val EXCEPT !.host = "127.0.0.1"]
               ELSE parsed.val
      IN Some(TrimEndMatches(UrlToString(u), "/"))

DefaultParsedConfig == [port |-> DEFAULT_PORT, ip |-> DEFAULT_IP, subpath |-> <<>>]

(***************************************************************************)
(* A configuration text is a sequence of lines [key, val]: for server.ip   *)
(* and server.webUISubpath val is the text between the quotes, for         *)
(* server.port it is the run of digits that follows the equals sign.       *)
(* Regex::captures returns the leftmost match: the first line whose key    *)
(* matches and whose value the pattern accepts.                            *)
(***************************************************************************)
Captures(content, key, allowEmpty) ==
    LET hits == {i \in 1..Len(content) :
                    /\ content[i].key = key
                    /\ (allowEmpty \/ content[i].val # <<>>)}
    IN IF hits = {} THEN None
       ELSE Some(content[CHOOSE i \in hits : \A j \in hits : i <= j].val)

parse_server_conf(content) ==
    LET ipCap == Captures(content, "server.ip", FALSE)
        portCap == Captures(content, "server.port", FALSE)
        subCap == Captures(content, "server.webUISubpath", TRUE)
        port == IF portCap.some THEN ParseU16(portCap.val) ELSE None
    IN [port |-> IF port.some THEN port.val ELSE DEFAULT_PORT,
        ip |-> IF ipCap.some THEN normalize_ip(Trim(ipCap.val)) ELSE DEFAULT_IP,
        subpath |-> IF subCap.some THEN normalize_subpath(Trim(subCap.val))
                    ELSE <<>>]

\* conf is what fs::read_to_string gave for the configuration path: None
\* when the path is undetermined or the file is unreadable.
load_server_conf(conf) ==
    IF conf.some THEN Some(parse_server_conf(conf.val)) ELSE None

\* Mutant of resolve_base_url: the environment variable is tried first.
resolve_base_url_EnvFirst(cli, envUrl, conf) ==
    LET fromCli == IF cli.some THEN normalize_base_url(cli.val) ELSE None
        fromEnv == IF envUrl.some THEN normalize_base_url(envUrl.val) ELSE None
        loaded == load_server_conf(conf)
        parsed == IF loaded.some THEN loaded.val ELSE DefaultParsedConfig
    IN IF fromEnv.some THEN fromEnv.val
       ELSE IF fromCli.some THEN fromCli.val
       ELSE build_base_url(parsed.ip, parsed.port, parsed.subpath)

resolve_base_url(cli, envUrl, conf) ==
    LET fromCli == IF cli.some THEN normalize_base_url(cli.val) ELSE None
        fromEnv == IF envUrl.some THEN normalize_base_url(envUrl.val) ELSE None
        loaded == load_server_conf(conf)
        parsed == IF loaded.some THEN loaded.val ELSE DefaultParsedConfig
    IN IF fromCli.some THEN fromCli.val
       ELSE IF fromEnv.some THEN fromEnv.val
       ELSE build_base_url(parsed.ip, parsed.port, parsed.subpath)

fallback_base_url(cli, envUrl, conf) == resolve_base_url(cli, envUrl, conf)


(***************************************************************************)
(* Results and errors (LauncherError).                                     *)
(***************************************************************************)
Ok(v) == [val |-> v, kind |-> "Ok"]
Err(k, arg) == [val |-> arg, kind |-> k]
NoResult == [val |-> <<>>, kind |-> "none"]
ErrorKinds ==
    {"MissingExecutable", "MissingFile", "SpawnServer", "StartupTimeout",
     "InvalidBaseUrl"}

(***************************************************************************)
(* RuntimePathLocator.  files is the set of paths that exist on disk.      *)
(***************************************************************************)
\* Mutant of push_unique_path: the path is pushed even when present.
push_unique_path_Always(paths, path) == Append(paths, path)

push_unique_path(paths, path) ==
    IF \E i \in 1..Len(paths) : paths[i] = path THEN paths
    ELSE Append(paths, path)

runtime_roots(resource_dir, app_dir) ==
    LET r0 == <<>>
        r1 == IF resource_dir.some
              THEN push_unique_path(push_unique_path(r0, resource_dir.val),
                                    Append(resource_dir.val, "resources"))
              ELSE r0
        r2 == push_unique_path(r1, app_dir)
    IN push_unique_path(r2, Append(app_dir, "resources"))

\* exe is the result of env::current_exe(); the parent of the root path
\* (the empty sequence of components) does not exist.
current_app_dir(exe) ==
    IF ~exe.some \/ exe.val = <<>> THEN Err("MissingExecutable", <<>>)
    ELSE Ok(SubSeq(exe.val, 1, Len(exe.val) - 1))

java_binary_path(app_dir) == app_dir \o <<"jre", "bin", "java">>

jar_file_path(root) == root \o <<"bin", "Suwayomi-Server.jar">>

RECURSIVE FindLoop(_, _, _, _, _)
FindLoop(roots, fs, i, first_missing_java, first_missing_jar) ==
    IF i > Len(roots)
    THEN IF first_missing_java.some
         THEN Err("MissingFile", first_missing_java.val)
         ELSE IF first_missing_jar.some
              THEN Err("MissingFile", first_missing_jar.val)
              ELSE Err("MissingExecutable", <<>>)
    ELSE
      LET root == roots[i]
          java_bin == java_binary_path(root)
          jar_file == jar_file_path(root)
      IN IF java_bin \notin fs
         THEN FindLoop(roots, fs, i + 1,
                       IF first_missing_java.some THEN first_missing_java
                       ELSE Some(java_bin),
                       first_missing_jar)
         ELSE IF jar_file \notin fs
              THEN FindLoop(roots, fs, i + 1, first_missing_java,
                            IF first_missing_jar.some THEN first_missing_jar
                            ELSE Some(jar_file))
              ELSE Ok([java_bin |-> java_bin, jar_file |-> jar_file,
                       runtime_root |-> root])

\* Mutant of find_runtime_paths: the candidates are tried last to first.
find_runtime_paths_Reversed(roots, fs) ==
    FindLoop([i \in 1..Len(roots) |-> roots[Len(roots) + 1 - i]], fs, 1,
             None, None)

find_runtime_paths(roots, fs) == FindLoop(roots, fs, 1, None, None)

NoConfig ==
    [java_bin |-> <<>>, jar_file |-> <<>>, runtime_root |-> <<>>,
     base_url |-> <<>>]

\* Mutant of discover: the configuration carries the default address.
discover_DefaultUrl(base_url, resource_dir, exe, fs) ==
    LET app_dir == current_app_dir(exe) IN
    IF app_dir.kind # "Ok" THEN app_dir
    ELSE
      LET found == find_runtime_paths(runtime_roots(resource_dir, app_dir.val), fs)
      IN IF found.kind # "Ok" THEN found
         ELSE Ok([java_bin |-> found.val.java_bin,
                  jar_file |-> found.val.jar_file,
                  runtime_root |-> found.val.runtime_root,
                  base_url |-> build_base_url(DEFAULT_IP, DEFAULT_PORT, <<>>)])

\* LauncherConfig::discover
discover(base_url, resource_dir, exe, fs) ==
    LET app_dir == current_app_dir(exe) IN
    IF app_dir.kind # "Ok" THEN app_dir
    ELSE
      LET found == find_runtime_paths(runtime_roots(resource_dir, app_dir.val), fs)
      IN IF found.kind # "Ok" THEN found
         ELSE Ok([java_bin |-> found.val.java_bin,
                  jar_file |-> found.val.jar_file,
                  runtime_root |-> found.val.runtime_root,
                  base_url |-> base_url])


(***************************************************************************)
(* State.                                                                  *)
(***************************************************************************)
VARIABLES
    \* The environment of the process, fixed while it runs.
    cliArg,        \* env::args().nth(1)
    envBaseUrl,    \* env::var("SUWAYOMI_BASE_URL")
    confText,      \* the text read from the server configuration file
    currentExe,    \* env::current_exe()
    resourceDir,   \* the resource directory the shell passes to bootstrap
    files,         \* the paths that exist on disk
    \* The launcher.
    childProcess,  \* CHILD_PROCESS: NoChild or Some(pid)
    mutex,         \* the thread holding CHILD_PROCESS's lock, 0 when free
    procs,         \* the processes spawned so far, indexed by pid
    \* Each calling thread.
    pc,            \* position of the thread in bootstrap or shutdown
    baseUrl,       \* bootstrap: base_url
    config,        \* bootstrap: config
    child,         \* bootstrap, shutdown: child (a pid, 0 when none)
    elapsed,       \* wait_for_server, wait_for_exit: started.elapsed() in ticks
    result,        \* what the thread's last call returned
    hist,          \* what the thread's current or last call has done
    nBootstrap,    \* calls of bootstrap made so far
    nShutdown,     \* calls of shutdown_child_process made so far
    \* The hosting shell (main.rs).
    shellPc,
    shellUrl,
    \* A call of one of the launcher's pure functions: [fn, args, out].
    call

envVars == <<cliArg, envBaseUrl, confText, currentExe, resourceDir, files>>
shellVars == <<shellPc, shellUrl>>
vars ==
    <<cliArg, envBaseUrl, confText, currentExe, resourceDir, files,
      childProcess, mutex, procs, pc, baseUrl, config, child, elapsed, result,
      hist, nBootstrap, nShutdown, shellPc, shellUrl, call>>

\* The threads that call the launcher: the shell's startup thread and its
\* exit-event thread.
Threads == {1, 2}
Pids == 1..Len(procs)

\* No function has been called.
NoCall == [fn |-> "none", args |-> <<>>, out |-> <<>>]

NoHist ==
    [path |-> <<>>, found |-> 0, op |-> "none", checks |-> 0,
     first |-> "none", spawns |-> 0, stores |-> 0, term |-> FALSE,
     pollErr |-> FALSE]

NewProc ==
    [term |-> FALSE, state |-> "running", killedBy |-> "none",
     waited |-> FALSE, exitedInTime |-> FALSE]

\* The thread returns res from its call.  Where a wait loop ran, the
\* returning action also clears elapsed: the loop's clock is gone.
Return(t, res) ==
    /\ pc' = [pc EXCEPT ![t] = "idle"]
    /\ result' = [result EXCEPT ![t] = res]

Goto(t, where) ==
    /\ pc' = [pc EXCEPT ![t] = where]
    /\ UNCHANGED result

\* The thread enters a call; what its previous call returned is gone.
Call(t, where) ==
    /\ pc' = [pc EXCEPT ![t] = where]
    /\ result' = [result EXCEPT ![t] = NoResult]

Enter(h, state) == [h EXCEPT !.path = Append(@, state)]
Checked(h) == [h EXCEPT !.checks = @ + 1]

(***************************************************************************)
(* bootstrap                                                               *)
(***************************************************************************)
\* Mutant of BootstrapBegin: the resolved address is not validated.
BootstrapBegin_NoValidate(t) ==
    /\ pc[t] = "idle"
    /\ nBootstrap < MaxBootstraps
    /\ nBootstrap' = nBootstrap + 1
    /\ baseUrl' = [baseUrl EXCEPT ![t] =
                     resolve_base_url(cliArg, envBaseUrl, confText)]
    /\ Call(t, "health1")
    /\ hist' = [hist EXCEPT ![t] =
                  [NoHist EXCEPT !.op = "bootstrap", !.path = <<"Unchecked">>]]
    /\ config' = [config EXCEPT ![t] = NoConfig]
    /\ child' = [child EXCEPT ![t] = 0]
    /\ elapsed' = [elapsed EXCEPT ![t] = 0]
    /\ UNCHANGED <<envVars, childProcess, mutex, procs, nShutdown>>

\* launcher.rs 66-70: the call, resolve_base_url and the validation.
BootstrapBegin(t) ==
    /\ pc[t] = "idle"
    /\ nBootstrap < MaxBootstraps
    /\ nBootstrap' = nBootstrap + 1
    /\ LET base_url == resolve_base_url(cliArg, envBaseUrl, confText)
           h == [NoHist EXCEPT !.op = "bootstrap", !.path = <<"Unchecked">>]
       IN /\ baseUrl' = [baseUrl EXCEPT ![t] = base_url]
          /\ IF ~UrlParse(base_url).some
             THEN /\ Return(t, Err("InvalidBaseUrl", base_url))
                  /\ hist' = [hist EXCEPT ![t] = Enter(h, "Failed")]
             ELSE /\ Call(t, "health1")
                  /\ hist' = [hist EXCEPT ![t] = h]
    /\ config' = [config EXCEPT ![t] = NoConfig]
    /\ child' = [child EXCEPT ![t] = 0]
    /\ elapsed' = [elapsed EXCEPT ![t] = 0]
    /\ UNCHANGED <<envVars, childProcess, mutex, procs, nShutdown>>

\* Mutant of FirstHealthCheck: a healthy answer does not end the call.
FirstHealthCheck_IgnoreHealthy(t) ==
    /\ pc[t] = "health1"
    /\ \E healthy \in BOOLEAN :
         /\ Goto(t, "discover")
         /\ hist' = [hist EXCEPT ![t] =
                       Enter([Checked(@) EXCEPT
                                !.first = IF healthy THEN "healthy"
                                          ELSE "unhealthy"],
                             "Discovering")]
    /\ UNCHANGED <<envVars, childProcess, mutex, procs, baseUrl, config, child,
                   elapsed, nBootstrap, nShutdown>>

\* launcher.rs 72-74: the first is_server_healthy(&base_url).
FirstHealthCheck(t) ==
    /\ pc[t] = "health1"
    /\ \E healthy \in BOOLEAN :
         IF healthy
         THEN /\ Return(t, Ok(baseUrl[t]))
              /\ hist' = [hist EXCEPT ![t] =
                            Enter([Checked(@) EXCEPT !.first = "healthy"], "Ready")]
         ELSE /\ Goto(t, "discover")
              /\ hist' = [hist EXCEPT ![t] =
                            Enter([Checked(@) EXCEPT !.first = "unhealthy"],
                                  "Discovering")]
    /\ UNCHANGED <<envVars, childProcess, mutex, procs, baseUrl, config, child,
                   elapsed, nBootstrap, nShutdown>>

\* launcher.rs 76: LauncherConfig::discover(base_url, resource_dir)?
Discover(t) ==
    /\ pc[t] = "discover"
    /\ LET found == discover(baseUrl[t], resourceDir, currentExe, files) IN
       IF found.kind = "Ok"
       THEN /\ config' = [config EXCEPT ![t] = found.val]
            /\ Goto(t, "health2")
            /\ UNCHANGED hist
       ELSE /\ Return(t, found)
            /\ hist' = [hist EXCEPT ![t] = Enter(@, "Failed")]
            /\ UNCHANGED config
    /\ UNCHANGED <<envVars, childProcess, mutex, procs, baseUrl, child, elapsed,
                   nBootstrap, nShutdown>>

\* launcher.rs 78, 93-95: the second is_server_healthy(&config.base_url).
SecondHealthCheck(t) ==
    /\ pc[t] = "health2"
    /\ \E healthy \in BOOLEAN :
         IF healthy
         THEN /\ Return(t, Ok(config[t].base_url))
              /\ hist' = [hist EXCEPT ![t] = Enter(Checked(@), "Ready")]
         ELSE /\ Goto(t, "spawn")
              /\ hist' = [hist EXCEPT ![t] = Enter(Checked(@), "Spawning")]
    /\ UNCHANGED <<envVars, childProcess, mutex, procs, baseUrl, config, child,
                   elapsed, nBootstrap, nShutdown>>

\* Mutant of SpawnServer: the spawned child is stored without the wait.
SpawnServer_NoWait(t) ==
    /\ pc[t] = "spawn"
    /\ \E spawned \in BOOLEAN :
         IF spawned
         THEN /\ procs' = Append(procs, NewProc)
              /\ child' = [child EXCEPT ![t] = Len(procs) + 1]
              /\ elapsed' = [elapsed EXCEPT ![t] = 0]
              /\ Goto(t, "store")
              /\ hist' = [hist EXCEPT ![t] =
                            Enter([@ EXCEPT !.spawns = @ + 1], "WaitingHealthy")]
         ELSE /\ Return(t, Err("SpawnServer", <<>>))
              /\ hist' = [hist EXCEPT ![t] =
                            Enter([@ EXCEPT !.spawns = @ + 1], "Failed")]
              /\ UNCHANGED <<procs, child, elapsed>>
    /\ UNCHANGED <<envVars, childProcess, mutex, baseUrl, config, nBootstrap,
                   nShutdown>>

\* launcher.rs 79, 186-207: spawn_server(&config)?; Command::spawn may fail.
SpawnServer(t) ==
    /\ pc[t] = "spawn"
    /\ \E spawned \in BOOLEAN :
         IF spawned
         THEN /\ procs' = Append(procs, NewProc)
              /\ child' = [child EXCEPT ![t] = Len(procs) + 1]
              /\ elapsed' = [elapsed EXCEPT ![t] = 0]
              /\ Goto(t, "wait")
              /\ hist' = [hist EXCEPT ![t] =
                            Enter([@ EXCEPT !.spawns = @ + 1], "WaitingHealthy")]
         ELSE /\ Return(t, Err("SpawnServer", <<>>))
              /\ hist' = [hist EXCEPT ![t] =
                            Enter([@ EXCEPT !.spawns = @ + 1], "Failed")]
              /\ UNCHANGED <<procs, child, elapsed>>
    /\ UNCHANGED <<envVars, childProcess, mutex, baseUrl, config, nBootstrap,
                   nShutdown>>

\* Mutant of WaitForServer: the result of the wait is ignored and the
\* child is stored after the deadline as well.
WaitForServer_StoreAnyway(t) ==
    /\ pc[t] = "wait"
    /\ IF elapsed[t] < StartupTicks
       THEN \E healthy \in BOOLEAN, took \in 0..1 :
              IF healthy
              THEN /\ Goto(t, "store")
                   /\ procs' = [procs EXCEPT ![child[t]].waited = TRUE]
                   /\ hist' = [hist EXCEPT ![t] = Checked(@)]
                   /\ UNCHANGED elapsed
              ELSE /\ elapsed' = [elapsed EXCEPT ![t] =
                                       Min(@ + took + 1, StartupTicks)]
                   /\ hist' = [hist EXCEPT ![t] = Checked(@)]
                   /\ UNCHANGED <<pc, result, procs>>
       ELSE /\ Goto(t, "store")
            /\ UNCHANGED <<procs, hist, elapsed>>
    /\ UNCHANGED <<envVars, childProcess, mutex, baseUrl, config, child,
                   nBootstrap, nShutdown>>

\* Mutant of WaitForServer: the loop gives up one polling interval before
\* the timeout.
WaitForServer_EarlyTimeout(t) ==
    /\ pc[t] = "wait"
    /\ IF elapsed[t] < StartupTicks - 1
       THEN \E healthy \in BOOLEAN, took \in 0..1 :
              IF healthy
              THEN /\ Goto(t, "store")
                   /\ procs' = [procs EXCEPT ![child[t]].waited = TRUE]
                   /\ hist' = [hist EXCEPT ![t] = Checked(@)]
                   /\ UNCHANGED elapsed
              ELSE /\ elapsed' = [elapsed EXCEPT ![t] =
                                       Min(@ + took + 1, StartupTicks)]
                   /\ hist' = [hist EXCEPT ![t] = Checked(@)]
                   /\ UNCHANGED <<pc, result, procs>>
       ELSE /\ Goto(t, "timeout")
            /\ UNCHANGED <<procs, hist, elapsed>>
    /\ UNCHANGED <<envVars, childProcess, mutex, baseUrl, config, child,
                   nBootstrap, nShutdown>>

\* launcher.rs 358-370: one pass of wait_for_server's loop.  A health check
\* takes up to one polling interval (its request timeout), the sleep one.
\* The clock is kept up to the timeout: later instants are all past it.
WaitForServer(t) ==
    /\ pc[t] = "wait"
    /\ IF elapsed[t] < StartupTicks
       THEN \E healthy \in BOOLEAN, took \in 0..1 :
              IF healthy
              THEN /\ Goto(t, "store")
                   /\ procs' = [procs EXCEPT ![child[t]].waited = TRUE]
                   /\ hist' = [hist EXCEPT ![t] = Checked(@)]
                   /\ UNCHANGED elapsed
              ELSE /\ elapsed' = [elapsed EXCEPT ![t] =
                                       Min(@ + took + 1, StartupTicks)]
                   /\ hist' = [hist EXCEPT ![t] = Checked(@)]
                   /\ UNCHANGED <<pc, result, procs>>
       ELSE /\ Goto(t, "timeout")
            /\ UNCHANGED <<procs, hist, elapsed>>
    /\ UNCHANGED <<envVars, childProcess, mutex, baseUrl, config, child,
                   nBootstrap, nShutdown>>

\* Mutant of StartupTimeout: the killed child is put in the slot.
StartupTimeout_Tracked(t) ==
    /\ pc[t] = "timeout"
    /\ procs' = [procs EXCEPT ![child[t]] =
                   [@ EXCEPT !.state = "reaped",
                             !.killedBy = IF @ = "none" THEN "bootstrap" ELSE @]]
    /\ childProcess' = Some(child[t])
    /\ Return(t, Err("StartupTimeout", config[t].base_url))
    /\ hist' = [hist EXCEPT ![t] = Enter(@, "Failed")]
    /\ elapsed' = [elapsed EXCEPT ![t] = 0]
    /\ UNCHANGED <<envVars, mutex, baseUrl, config, child, nBootstrap,
                   nShutdown>>

\* Mutant of StartupTimeout: the error is returned without kill and wait.
StartupTimeout_NoKill(t) ==
    /\ pc[t] = "timeout"
    /\ Return(t, Err("StartupTimeout", config[t].base_url))
    /\ hist' = [hist EXCEPT ![t] = Enter(@, "Failed")]
    /\ elapsed' = [elapsed EXCEPT ![t] = 0]
    /\ UNCHANGED <<envVars, childProcess, mutex, procs, baseUrl, config, child,
                   nBootstrap, nShutdown>>

\* launcher.rs 82-87: child.kill(); child.wait(); Err(StartupTimeout).
StartupTimeout(t) ==
    /\ pc[t] = "timeout"
    /\ procs' = [procs EXCEPT ![child[t]] =
                   [@ EXCEPT !.state = "reaped",
                             !.killedBy = IF @ = "none" THEN "bootstrap" ELSE @]]
    /\ Return(t, Err("StartupTimeout", config[t].base_url))
    /\ hist' = [hist EXCEPT ![t] = Enter(@, "Failed")]
    /\ elapsed' = [elapsed EXCEPT ![t] = 0]
    /\ UNCHANGED <<envVars, childProcess, mutex, baseUrl, config, child,
                   nBootstrap, nShutdown>>

\* launcher.rs 90, 93-95: *CHILD_PROCESS.lock() = Some(child); Ok(..).
\* The lock is taken and released within the statement.
StoreChild(t) ==
    /\ pc[t] = "store"
    /\ mutex = 0
    /\ childProcess' = Some(child[t])
    /\ Return(t, Ok(config[t].base_url))
    /\ hist' = [hist EXCEPT ![t] = Enter([@ EXCEPT !.stores = @ + 1], "Ready")]
    /\ elapsed' = [elapsed EXCEPT ![t] = 0]
    /\ UNCHANGED <<envVars, mutex, procs, baseUrl, config, child, nBootstrap,
                   nShutdown>>

(***************************************************************************)
(* shutdown_child_process                                                  *)
(***************************************************************************)
Unit == [val |-> <<>>, kind |-> "Unit"]

\* The call of shutdown_child_process; it then waits for the lock.
ShutdownBegin(t) ==
    /\ pc[t] = "idle"
    /\ nShutdown < MaxShutdowns
    /\ nShutdown' = nShutdown + 1
    /\ Call(t, "lock")
    /\ hist' = [hist EXCEPT ![t] = [NoHist EXCEPT !.op = "shutdown"]]
    /\ child' = [child EXCEPT ![t] = 0]
    /\ elapsed' = [elapsed EXCEPT ![t] = 0]
    /\ UNCHANGED <<envVars, childProcess, mutex, procs, baseUrl, config,
                   nBootstrap>>

\* Mutant of ShutdownTake: the child is read from the slot and left there.
ShutdownTake_Peek(t) ==
    /\ pc[t] = "lock"
    /\ mutex = 0
    /\ IF childProcess.some
       THEN /\ mutex' = t
            /\ child' = [child EXCEPT ![t] = childProcess.val]
            /\ Goto(t, "terminate")
            /\ hist' = [hist EXCEPT ![t].found = childProcess.val]
            /\ UNCHANGED childProcess
       ELSE /\ Return(t, Unit)
            /\ UNCHANGED <<mutex, child, childProcess, hist>>
    /\ UNCHANGED <<envVars, procs, baseUrl, config, elapsed, nBootstrap,
                   nShutdown>>

\* launcher.rs 99-102: lock, guard.take(); without a child the function
\* returns and the guard is dropped.
ShutdownTake(t) ==
    /\ pc[t] = "lock"
    /\ mutex = 0
    /\ IF childProcess.some
       THEN /\ mutex' = t
            /\ child' = [child EXCEPT ![t] = childProcess.val]
            /\ childProcess' = NoChild
            /\ Goto(t, "terminate")
            /\ hist' = [hist EXCEPT ![t].found = childProcess.val]
       ELSE /\ Return(t, Unit)
            /\ UNCHANGED <<mutex, child, childProcess, hist>>
    /\ UNCHANGED <<envVars, procs, baseUrl, config, elapsed, nBootstrap,
                   nShutdown>>

\* launcher.rs 104, 394-401: graceful_terminate sends SIGTERM.
GracefulTerminate(t) ==
    /\ pc[t] = "terminate"
    /\ procs' = [procs EXCEPT ![child[t]].term = TRUE]
    /\ hist' = [hist EXCEPT ![t].term = TRUE]
    /\ elapsed' = [elapsed EXCEPT ![t] = 0]
    /\ Goto(t, "exitwait")
    /\ UNCHANGED <<envVars, childProcess, mutex, baseUrl, config, child,
                   nBootstrap, nShutdown>>

\* What Child::try_wait can return for a process.
TryWait(p) ==
    (IF p.state = "running" THEN {"running"} ELSE {"exited"}) \cup {"error"}

\* Mutant of WaitForExit: a child still running at a poll is killed at
\* once, without waiting for the deadline.
WaitForExit_KillEarly(t) ==
    /\ pc[t] = "exitwait"
    /\ \E polled \in TryWait(procs[child[t]]) :
         IF polled = "exited" /\ elapsed[t] < ShutdownTicks
         THEN /\ procs' = [procs EXCEPT ![child[t]].state = "reaped"]
              /\ mutex' = 0
              /\ Return(t, Unit)
              /\ elapsed' = [elapsed EXCEPT ![t] = 0]
              /\ UNCHANGED hist
         ELSE /\ Goto(t, "kill")
              /\ UNCHANGED <<procs, mutex, hist, elapsed>>
    /\ UNCHANGED <<envVars, childProcess, baseUrl, config, child, nBootstrap,
                   nShutdown>>

\* launcher.rs 383-388, 106, 110: the loop test of wait_for_exit and
\* child.try_wait().  Ok(Some(_)) ends the shutdown and drops the guard.
WaitForExit(t) ==
    /\ pc[t] = "exitwait"
    /\ IF elapsed[t] < ShutdownTicks
       THEN \E polled \in TryWait(procs[child[t]]) :
              CASE polled = "exited" ->
                     /\ procs' = [procs EXCEPT ![child[t]].state = "reaped"]
                     /\ mutex' = 0
                     /\ Return(t, Unit)
                     /\ elapsed' = [elapsed EXCEPT ![t] = 0]
                     /\ UNCHANGED hist
                [] polled = "running" ->
                     /\ Goto(t, "exitsleep")
                     /\ UNCHANGED <<procs, mutex, hist, elapsed>>
                [] polled = "error" ->
                     /\ hist' = [hist EXCEPT ![t].pollErr = TRUE]
                     /\ Goto(t, "kill")
                     /\ UNCHANGED <<procs, mutex, elapsed>>
       ELSE /\ Goto(t, "kill")
            /\ UNCHANGED <<procs, mutex, hist, elapsed>>
    /\ UNCHANGED <<envVars, childProcess, baseUrl, config, child, nBootstrap,
                   nShutdown>>

\* launcher.rs 386: thread::sleep(POLL_INTERVAL) in wait_for_exit.
WaitForExitSleep(t) ==
    /\ pc[t] = "exitsleep"
    /\ elapsed' = [elapsed EXCEPT ![t] = @ + 1]
    /\ Goto(t, "exitwait")
    /\ UNCHANGED <<envVars, childProcess, mutex, procs, baseUrl, config, child,
                   hist, nBootstrap, nShutdown>>

\* Mutant of ForceKill: the guard is not dropped when shutdown returns.
ForceKill_KeepLock(t) ==
    /\ pc[t] = "kill"
    /\ procs' = [procs EXCEPT ![child[t]] =
                   [@ EXCEPT !.state = "reaped", !.killedBy = "shutdown"]]
    /\ Return(t, Unit)
    /\ elapsed' = [elapsed EXCEPT ![t] = 0]
    /\ UNCHANGED <<envVars, childProcess, mutex, baseUrl, config, child, hist,
                   nBootstrap, nShutdown>>

\* launcher.rs 106-110: child.kill(); child.wait(); the guard is dropped.
ForceKill(t) ==
    /\ pc[t] = "kill"
    /\ procs' = [procs EXCEPT ![child[t]] =
                   [@ EXCEPT !.state = "reaped", !.killedBy = "shutdown"]]
    /\ mutex' = 0
    /\ Return(t, Unit)
    /\ elapsed' = [elapsed EXCEPT ![t] = 0]
    /\ UNCHANGED <<envVars, childProcess, baseUrl, config, child, hist,
                   nBootstrap, nShutdown>>

(***************************************************************************)
(* The spawned server process ends by itself: it crashes, or it stops on   *)
(* the SIGTERM it received.  exitedInTime records that no shutdown was     *)
(* waiting for it past its deadline at that moment.                        *)
(***************************************************************************)
PastDeadline(p) ==
    \E t \in Threads :
        /\ child[t] = p
        /\ pc[t] \in {"exitwait", "exitsleep", "kill"}
        /\ elapsed[t] >= ShutdownTicks

ChildExits(p) ==
    /\ procs[p].state = "running"
    /\ procs' = [procs EXCEPT ![p] =
                   [@ EXCEPT !.state = "exited",
                             !.exitedInTime = ~PastDeadline(p)]]
    /\ UNCHANGED <<envVars, childProcess, mutex, pc, baseUrl, config, child,
                   elapsed, result, hist, nBootstrap, nShutdown>>

(***************************************************************************)
(* The hosting shell, main.rs.                                             *)
(***************************************************************************)
\* main.rs 8: setup calls launcher::bootstrap on the shell's thread.
ShellSetup ==
    /\ shellPc = "setup"
    /\ BootstrapBegin(1)
    /\ shellPc' = "bootstrap"
    /\ UNCHANGED shellUrl

\* main.rs 9: Ok(bootstrap) => bootstrap.base_url
ShellBootstrapOk ==
    /\ shellPc = "bootstrap"
    /\ pc[1] = "idle"
    /\ result[1].kind = "Ok"
    /\ shellUrl' = result[1].val
    /\ shellPc' = "parse"
    /\ UNCHANGED <<envVars, childProcess, mutex, procs, pc, baseUrl, config,
                   child, elapsed, result, hist, nBootstrap, nShutdown>>

\* main.rs 10-13: Err(err) => launcher::fallback_base_url()
ShellBootstrapErr ==
    /\ shellPc = "bootstrap"
    /\ pc[1] = "idle"
    /\ result[1].kind \in ErrorKinds
    /\ shellUrl' = fallback_base_url(cliArg, envBaseUrl, confText)
    /\ shellPc' = "parse"
    /\ UNCHANGED <<envVars, childProcess, mutex, procs, pc, baseUrl, config,
                   child, elapsed, result, hist, nBootstrap, nShutdown>>

\* main.rs 15: url::Url::parse(&base_url)?  An error leaves setup, and the
\* application ends in the panic of expect at main.rs 28.
ShellParse ==
    /\ shellPc = "parse"
    /\ shellPc' = IF UrlParse(shellUrl).some THEN "window" ELSE "parse_failed"
    /\ UNCHANGED <<envVars, childProcess, mutex, procs, pc, baseUrl, config,
                   child, elapsed, result, hist, nBootstrap, nShutdown, shellUrl>>

\* main.rs 17-25: navigate the main window or build it; either may fail,
\* and then setup fails as well.
ShellWindow ==
    /\ shellPc = "window"
    /\ \E shown \in BOOLEAN :
         shellPc' = IF shown THEN "running" ELSE "window_failed"
    /\ UNCHANGED <<envVars, childProcess, mutex, procs, pc, baseUrl, config,
                   child, elapsed, result, hist, nBootstrap, nShutdown, shellUrl>>

\* main.rs 30-34: RunEvent::ExitRequested and RunEvent::Exit both call
\* launcher::shutdown_child_process; Exit ends the event loop.
ShellExitEvent ==
    /\ shellPc = "running"
    /\ ShutdownBegin(1)
    /\ \E event \in {"ExitRequested", "Exit"} :
         shellPc' = IF event = "Exit" THEN "exited" ELSE "running"
    /\ UNCHANGED shellUrl

(***************************************************************************)
(* Inputs.                                                                 *)
(***************************************************************************)
UrlPlain == <<"http://", "h", ":", "8", "/">>
UrlOther == <<"http://", "h", ":", "9", "/", "a">>
UrlAnyAddr == <<"http://", "0.0.0.0", "/", "a", "/", "/">>
UrlNoScheme == <<"h", "/", "a">>
UrlNoHost == <<"http://">>

ConfLine(k, v) == [val |-> v, key |-> k]
ConfFull ==
    <<ConfLine("server.ip", <<"0.0.0.0">>),
      ConfLine("server.port", <<"8", "0", "8", "0">>),
      ConfLine("server.webUISubpath", <<"a">>)>>
ConfBlankIp == <<ConfLine("server.ip", <<" ">>)>>
ConfBigPort ==
    <<ConfLine("server.webUIEnabled", <<>>),
      ConfLine("server.port", <<"7", "0", "0", "0", "0">>),
      ConfLine("server.ip", <<"h">>)>>

ExePath == <<"app", "launcher">>
FilesComplete == {java_binary_path(<<"app">>), jar_file_path(<<"app">>)}
FilesNoJar == {java_binary_path(<<"app">>), java_binary_path(<<"res">>)}
FilesInResources ==
    {java_binary_path(<<"app">>), java_binary_path(<<"res", "resources">>),
     jar_file_path(<<"res", "resources">>)}

InitLauncher ==
    /\ childProcess = NoChild
    /\ mutex = 0
    /\ procs = <<>>
    /\ pc = [t \in Threads |-> "idle"]
    /\ baseUrl = [t \in Threads |-> <<>>]
    /\ config = [t \in Threads |-> NoConfig]
    /\ child = [t \in Threads |-> 0]
    /\ elapsed = [t \in Threads |-> 0]
    /\ result = [t \in Threads |-> NoResult]
    /\ hist = [t \in Threads |-> NoHist]
    /\ nBootstrap = 0
    /\ nShutdown = 0
    /\ shellUrl = <<>>
    /\ call = NoCall

(***************************************************************************)
(* Spec: the launcher's public functions called from several threads in    *)
(* any order.                                                              *)
(***************************************************************************)
Init ==
    /\ cliArg = None
    /\ envBaseUrl = None
    /\ confText \in {None, Some(ConfBlankIp)}
    /\ currentExe = Some(ExePath)
    /\ resourceDir = None
    /\ files \in {FilesComplete, FilesNoJar}
    /\ InitLauncher
    /\ shellPc = "off"

BootstrapCall(t) == shellPc = "off" /\ BootstrapBegin(t)
ShutdownCall(t) == shellPc = "off" /\ ShutdownBegin(t)

Next ==
    \/ \E t \in Threads : BootstrapCall(t) /\ UNCHANGED <<shellVars, call>>
    \/ \E t \in Threads : FirstHealthCheck(t) /\ UNCHANGED <<shellVars, call>>
    \/ \E t \in Threads : Discover(t) /\ UNCHANGED <<shellVars, call>>
    \/ \E t \in Threads : SecondHealthCheck(t) /\ UNCHANGED <<shellVars, call>>
    \/ \E t \in Threads : SpawnServer(t) /\ UNCHANGED <<shellVars, call>>
    \/ \E t \in Threads : WaitForServer(t) /\ UNCHANGED <<shellVars, call>>
    \/ \E t \in Threads : StartupTimeout(t) /\ UNCHANGED <<shellVars, call>>
    \/ \E t \in Threads : StoreChild(t) /\ UNCHANGED <<shellVars, call>>
    \/ \E t \in Threads : ShutdownCall(t) /\ UNCHANGED <<shellVars, call>>
    \/ \E t \in Threads : ShutdownTake(t) /\ UNCHANGED <<shellVars, call>>
    \/ \E t \in Threads : GracefulTerminate(t) /\ UNCHANGED <<shellVars, call>>
    \/ \E t \in Threads : WaitForExit(t) /\ UNCHANGED <<shellVars, call>>
    \/ \E t \in Threads : WaitForExitSleep(t) /\ UNCHANGED <<shellVars, call>>
    \/ \E t \in Threads : ForceKill(t) /\ UNCHANGED <<shellVars, call>>
    \/ \E p \in Pids : ChildExits(p) /\ UNCHANGED <<shellVars, call>>

Spec == Init /\ [][Next]_vars

(***************************************************************************)
(* SpecLive: the startup thread (1) calls bootstrap and the exit-event     *)
(* thread (2) calls shutdown_child_process, each any number of times up to *)
(* its bound, and every thread that is inside a call goes on: the          *)
(* scheduler runs it, time advances, and each health check, poll, sleep,   *)
(* kill and wait returns.  Nothing is assumed of the callers (a call need  *)
(* not be made) nor of the server process (it need not exit by itself).    *)
(***************************************************************************)
BootstrapStep(t) ==
    /\ \/ FirstHealthCheck(t)
       \/ Discover(t)
       \/ SecondHealthCheck(t)
       \/ SpawnServer(t)
       \/ WaitForServer(t)
       \/ StartupTimeout(t)
       \/ StoreChild(t)
    /\ UNCHANGED <<shellVars, call>>

ShutdownStep(t) ==
    /\ \/ ShutdownTake(t)
       \/ GracefulTerminate(t)
       \/ WaitForExit(t)
       \/ WaitForExitSleep(t)
       \/ ForceKill(t)
    /\ UNCHANGED <<shellVars, call>>

NextLive ==
    \/ BootstrapCall(1) /\ UNCHANGED <<shellVars, call>>
    \/ FirstHealthCheck(1) /\ UNCHANGED <<shellVars, call>>
    \/ Discover(1) /\ UNCHANGED <<shellVars, call>>
    \/ SecondHealthCheck(1) /\ UNCHANGED <<shellVars, call>>
    \/ SpawnServer(1) /\ UNCHANGED <<shellVars, call>>
    \/ WaitForServer(1) /\ UNCHANGED <<shellVars, call>>
    \/ StartupTimeout(1) /\ UNCHANGED <<shellVars, call>>
    \/ StoreChild(1) /\ UNCHANGED <<shellVars, call>>
    \/ ShutdownCall(2) /\ UNCHANGED <<shellVars, call>>
    \/ ShutdownTake(2) /\ UNCHANGED <<shellVars, call>>
    \/ GracefulTerminate(2) /\ UNCHANGED <<shellVars, call>>
    \/ WaitForExit(2) /\ UNCHANGED <<shellVars, call>>
    \/ WaitForExitSleep(2) /\ UNCHANGED <<shellVars, call>>
    \/ ForceKill(2) /\ UNCHANGED <<shellVars, call>>
    \/ \E p \in Pids : ChildExits(p) /\ UNCHANGED <<shellVars, call>>

Fairness == WF_vars(BootstrapStep(1)) /\ WF_vars(ShutdownStep(2))

SpecLive == Init /\ [][NextLive]_vars /\ Fairness

(***************************************************************************)
(* SpecShell: the application as main.rs runs it, on one thread.           *)
(***************************************************************************)
InitShell ==
    /\ cliArg \in {None, Some(UrlPlain), Some(UrlAnyAddr), Some(UrlNoScheme),
                   Some(UrlNoHost)}
    /\ envBaseUrl \in {None, Some(UrlOther), Some(UrlAnyAddr), Some(UrlNoScheme)}
    /\ confText \in {None, Some(ConfFull), Some(ConfBlankIp), Some(ConfBigPort)}
    /\ currentExe \in {None, Some(ExePath)}
    /\ resourceDir \in {None, Some(<<"res">>)}
    /\ files \in {FilesComplete, FilesNoJar, FilesInResources, {}}
    /\ InitLauncher
    /\ shellPc = "setup"

NextShell ==
    \/ ShellSetup /\ UNCHANGED call
    \/ FirstHealthCheck(1) /\ UNCHANGED <<shellVars, call>>
    \/ Discover(1) /\ UNCHANGED <<shellVars, call>>
    \/ SecondHealthCheck(1) /\ UNCHANGED <<shellVars, call>>
    \/ SpawnServer(1) /\ UNCHANGED <<shellVars, call>>
    \/ WaitForServer(1) /\ UNCHANGED <<shellVars, call>>
    \/ StartupTimeout(1) /\ UNCHANGED <<shellVars, call>>
    \/ StoreChild(1) /\ UNCHANGED <<shellVars, call>>
    \/ ShellBootstrapOk /\ UNCHANGED call
    \/ ShellBootstrapErr /\ UNCHANGED call
    \/ ShellParse /\ UNCHANGED call
    \/ ShellWindow /\ UNCHANGED call
    \/ ShellExitEvent /\ UNCHANGED call
    \/ ShutdownTake(1) /\ UNCHANGED <<shellVars, call>>
    \/ GracefulTerminate(1) /\ UNCHANGED <<shellVars, call>>
    \/ WaitForExit(1) /\ UNCHANGED <<shellVars, call>>
    \/ WaitForExitSleep(1) /\ UNCHANGED <<shellVars, call>>
    \/ ForceKill(1) /\ UNCHANGED <<shellVars, call>>
    \/ \E p \in Pids : ChildExits(p) /\ UNCHANGED <<shellVars, call>>

SpecShell == InitShell /\ [][NextShell]_vars

(***************************************************************************)
(* SpecExit: the shell's startup thread (1) calls bootstrap once and its   *)
(* exit-event thread (2) calls shutdown_child_process once, at any moment  *)
(* after the startup has begun.                                            *)
(***************************************************************************)
InitExit ==
    /\ cliArg = None
    /\ envBaseUrl = None
    /\ confText \in {None, Some(ConfBlankIp)}
    /\ currentExe = Some(ExePath)
    /\ resourceDir \in {None, Some(<<"res">>)}
    /\ files \in {FilesComplete, FilesNoJar, FilesInResources}
    /\ InitLauncher
    /\ shellPc = "threads"

StartupBootstrap ==
    /\ shellPc = "threads"
    /\ nBootstrap = 0
    /\ BootstrapBegin(1)
    /\ UNCHANGED <<shellVars, call>>

ExitShutdown ==
    /\ shellPc = "threads"
    /\ nBootstrap = 1
    /\ nShutdown = 0
    /\ ShutdownBegin(2)
    /\ UNCHANGED <<shellVars, call>>

NextExit ==
    \/ StartupBootstrap
    \/ FirstHealthCheck(1) /\ UNCHANGED <<shellVars, call>>
    \/ Discover(1) /\ UNCHANGED <<shellVars, call>>
    \/ SecondHealthCheck(1) /\ UNCHANGED <<shellVars, call>>
    \/ SpawnServer(1) /\ UNCHANGED <<shellVars, call>>
    \/ WaitForServer(1) /\ UNCHANGED <<shellVars, call>>
    \/ StartupTimeout(1) /\ UNCHANGED <<shellVars, call>>
    \/ StoreChild(1) /\ UNCHANGED <<shellVars, call>>
    \/ ExitShutdown
    \/ ShutdownTake(2) /\ UNCHANGED <<shellVars, call>>
    \/ GracefulTerminate(2) /\ UNCHANGED <<shellVars, call>>
    \/ WaitForExit(2) /\ UNCHANGED <<shellVars, call>>
    \/ WaitForExitSleep(2) /\ UNCHANGED <<shellVars, call>>
    \/ ForceKill(2) /\ UNCHANGED <<shellVars, call>>
    \/ \E p \in Pids : ChildExits(p) /\ UNCHANGED <<shellVars, call>>

SpecExit == InitExit /\ [][NextExit]_vars

(***************************************************************************)
(* SpecFn: the launcher's pure functions, each applied to arguments drawn  *)
(* from bounded sets.  call records the last application.                  *)
(***************************************************************************)
\* Longest subpath argument, in tokens.
MaxSubpathLen == 3
\* Longest path argument, in components.
MaxPathLen == 2
\* Longest list of candidate roots.
MaxRoots == 2
\* Longest configuration text, in lines.
MaxConfLines == 2

SeqsUpTo(S, n) == UNION {[1..k -> S] : k \in 0..n}

SubpathTokens == {"/", " ", "a"}
Subpaths == SeqsUpTo(SubpathTokens, MaxSubpathLen)
IpArgs == {<<"0.0.0.0">>, <<"127.0.0.1">>, <<"h">>}
PortArgs == {0, HTTP_DEFAULT_PORT, DEFAULT_PORT, U16_MAX}
PathArgs == SeqsUpTo({"app", "resources"}, MaxPathLen)
RootArgs == {<<"res">>, <<"app">>}
RootLists == SeqsUpTo(RootArgs, MaxRoots)
FileSets == SUBSET UNION {{java_binary_path(r), jar_file_path(r)} : r \in RootArgs}
ConfLineArgs ==
    {ConfLine("server.ip", <<"0.0.0.0">>),
     ConfLine("server.ip", <<" ", "h">>),
     ConfLine("server.ip", <<>>),
     ConfLine("server.port", <<"8", "0", "8", "0">>),
     ConfLine("server.port", <<"6", "5", "5", "3", "6">>),
     ConfLine("server.webUISubpath", <<"a", "/">>),
     ConfLine("server.webUISubpath", <<>>),
     ConfLine("server.webUIEnabled", <<>>)}
ConfTexts == SeqsUpTo(ConfLineArgs, MaxConfLines)

InitFn ==
    /\ cliArg = None
    /\ envBaseUrl = None
    /\ confText = None
    /\ currentExe = Some(ExePath)
    /\ resourceDir = None
    /\ files = FilesComplete
    /\ InitLauncher
    /\ shellPc = "off"

\* The record of fn applied to args with result out.
Applied(fn, args, out) == [fn |-> fn, args |-> args, out |-> out]

CallNormalizeSubpath ==
    /\ \E s \in Subpaths :
         call' = Applied("normalize_subpath", <<s>>, normalize_subpath(s))
    /\ UNCHANGED <<envVars, childProcess, mutex, procs, pc, baseUrl, config,
                   child, elapsed, result, hist, nBootstrap, nShutdown,
                   shellVars>>

CallBuildBaseUrl ==
    /\ \E ip \in IpArgs, port \in PortArgs, s \in Subpaths :
         call' = Applied("build_base_url", <<ip, port, s>>,
                         build_base_url(ip, port, s))
    /\ UNCHANGED <<envVars, childProcess, mutex, procs, pc, baseUrl, config,
                   child, elapsed, result, hist, nBootstrap, nShutdown,
                   shellVars>>

CallRuntimeRoots ==
    /\ \E rd \in {None} \cup {Some(d) : d \in PathArgs}, ad \in PathArgs :
         call' = Applied("runtime_roots", <<rd, ad>>, runtime_roots(rd, ad))
    /\ UNCHANGED <<envVars, childProcess, mutex, procs, pc, baseUrl, config,
                   child, elapsed, result, hist, nBootstrap, nShutdown,
                   shellVars>>

CallFindRuntimePaths ==
    /\ \E roots \in RootLists, fs \in FileSets :
         call' = Applied("find_runtime_paths", <<roots, fs>>,
                         find_runtime_paths(roots, fs))
    /\ UNCHANGED <<envVars, childProcess, mutex, procs, pc, baseUrl, config,
                   child, elapsed, result, hist, nBootstrap, nShutdown,
                   shellVars>>

CallParseServerConf ==
    /\ \E content \in ConfTexts :
         call' = Applied("parse_server_conf", <<content>>,
                         parse_server_conf(content))
    /\ UNCHANGED <<envVars, childProcess, mutex, procs, pc, baseUrl, config,
                   child, elapsed, result, hist, nBootstrap, nShutdown,
                   shellVars>>

NextFn ==
    \/ CallNormalizeSubpath
    \/ CallBuildBaseUrl
    \/ CallRuntimeRoots
    \/ CallFindRuntimePaths
    \/ CallParseServerConf

SpecFn == InitFn /\ [][NextFn]_vars

(***************************************************************************)
(* Claims.                                                                 *)
(***************************************************************************)
BootstrapReturned(t) == hist[t].op = "bootstrap" /\ result[t].kind # "none"
ShutdownReturned(t) == hist[t].op = "shutdown" /\ result[t].kind # "none"

\* C1: the supervised-child slot is never overwritten while it is
\* non-empty: from a non-empty slot the only change is shutdown's take,
\* which empties it.
C1_SlotNeverOverwritten ==
    [][childProcess.some =>
         (childProcess' = childProcess \/ ~childProcess'.some)]_vars

\* C2: when bootstrap has returned Err(StartupTimeout), the child that this
\* call spawned has been killed and reaped by the call, and is not tracked.
C2_TimeoutChildReaped ==
    \A t \in Threads :
        result[t].kind = "StartupTimeout" =>
            /\ child[t] \in Pids
            /\ procs[child[t]].state = "reaped"
            /\ procs[child[t]].killedBy = "bootstrap"
            /\ childProcess # Some(child[t])

C2_Witness ==
    \E t \in Threads :
        /\ result[t].kind = "StartupTimeout"
        /\ hist[t].spawns = 1
        /\ child[t] \in Pids

\* C3: a child held in the slot is one whose wait_for_server returned true
\* in the bootstrap call that spawned it; a child whose health wait timed
\* out is never in the slot.
C3_TrackedChildWasHealthy ==
    /\ childProcess.some =>
         /\ childProcess.val \in Pids
         /\ procs[childProcess.val].waited
         /\ procs[childProcess.val].killedBy # "bootstrap"
    /\ \A t \in Threads :
         pc[t] = "timeout" => childProcess # Some(child[t])

C3_Witness ==
    /\ childProcess.some
    /\ procs[childProcess.val].waited
    /\ \E t \in Threads : result[t].kind = "StartupTimeout"

\* C4 as stated: every finished bootstrap call followed one of the
\* specified paths.
SpecifiedPaths ==
    {<<"Unchecked", "Ready">>,
     <<"Unchecked", "Discovering", "Spawning", "WaitingHealthy", "Ready">>,
     <<"Unchecked", "Discovering", "Failed">>,
     <<"Unchecked", "Discovering", "Spawning", "Failed">>,
     <<"Unchecked", "Discovering", "Spawning", "WaitingHealthy", "Failed">>}

C4_OnlySpecifiedPaths ==
    \A t \in Threads :
        BootstrapReturned(t) => hist[t].path \in SpecifiedPaths

\* C4 amended: a finished bootstrap call followed one of the specified
\* paths, or Unchecked -> Failed(InvalidBaseUrl), or Unchecked ->
\* Discovering -> Ready when the health check after discovery succeeded.  A
\* call that entered Discovering is Ready only after that second check
\* succeeded, or after it spawned a process whose health wait succeeded.
C4_Paths ==
    \A t \in Threads :
        BootstrapReturned(t) =>
            /\ hist[t].path \in
                 SpecifiedPaths \cup
                   {<<"Unchecked", "Failed">>,
                    <<"Unchecked", "Discovering", "Ready">>}
            /\ hist[t].path = <<"Unchecked", "Failed">> =>
                 result[t].kind = "InvalidBaseUrl"
            /\ hist[t].path = <<"Unchecked", "Discovering", "Ready">> =>
                 /\ result[t].kind = "Ok"
                 /\ hist[t].checks = 2
                 /\ hist[t].spawns = 0
                 /\ hist[t].stores = 0
            /\ hist[t].path[Len(hist[t].path)] = "Ready" <=> result[t].kind = "Ok"
            /\ (/\ result[t].kind = "Ok"
                /\ "Spawning" \in {hist[t].path[i] : i \in 1..Len(hist[t].path)}) =>
                 /\ hist[t].spawns = 1
                 /\ child[t] \in Pids
                 /\ procs[child[t]].waited
                 /\ hist[t].stores = 1

C4_Witness ==
    \E t \in Threads :
        /\ BootstrapReturned(t)
        /\ hist[t].path = <<"Unchecked", "Discovering", "Ready">>

\* C5: when the first health check of a bootstrap call succeeds, the call
\* has returned Ready with the resolved base address at once: one health
\* check, no discovery, no spawn, and no write of the slot by this call.
C5_AlreadyHealthy ==
    \A t \in Threads :
        (hist[t].op = "bootstrap" /\ hist[t].first = "healthy") =>
            /\ pc[t] = "idle"
            /\ result[t] = Ok(resolve_base_url(cliArg, envBaseUrl, confText))
            /\ hist[t].path = <<"Unchecked", "Ready">>
            /\ hist[t].checks = 1
            /\ config[t] = NoConfig
            /\ hist[t].spawns = 0
            /\ child[t] = 0
            /\ hist[t].stores = 0

C5_Witness ==
    \E t \in Threads :
        /\ hist[t].first = "healthy"
        /\ result[t].kind = "Ok"
        /\ childProcess.some

\* C6 as stated: the forced kill comes after the graceful request and only
\* for a child that has not exited by the deadline; a child that exits
\* within the deadline is never force-killed; the child has exited when
\* shutdown has returned.
C6_KillOnlyIfNotExitedInTime ==
    /\ \A p \in Pids :
         procs[p].killedBy = "shutdown" =>
             procs[p].term /\ ~procs[p].exitedInTime
    /\ \A t \in Threads :
         (ShutdownReturned(t) /\ hist[t].found # 0) =>
             procs[hist[t].found].state = "reaped"

\* C6 amended: shutdown sends the graceful request first and then polls;
\* it issues the forced kill only when no poll before the deadline saw the
\* child exited: the deadline has passed, or a poll failed.  A child whose
\* exit a poll sees is not force-killed (one that exits after the last poll
\* is).  When shutdown returns the slot is empty and the child is reaped.
C6_Inv ==
    /\ \A t \in Threads :
         /\ pc[t] \in {"exitwait", "exitsleep", "kill"} =>
              /\ hist[t].term
              /\ procs[child[t]].term
              /\ procs[child[t]].killedBy = "none"
              /\ mutex = t
         /\ pc[t] = "kill" =>
              elapsed[t] >= ShutdownTicks \/ hist[t].pollErr
         /\ (ShutdownReturned(t) /\ hist[t].found # 0) =>
              /\ procs[hist[t].found].state = "reaped"
              /\ procs[hist[t].found].term
    /\ mutex # 0 => ~childProcess.some
    /\ \A p \in Pids :
         procs[p].killedBy = "shutdown" =>
             procs[p].term /\ procs[p].state = "reaped"

C6_Act ==
    \A t \in Threads :
        /\ (pc[t] = "exitwait" /\ pc'[t] = "idle") =>
             /\ procs[child[t]].state = "exited"
             /\ elapsed[t] < ShutdownTicks
             /\ procs'[child[t]].killedBy = "none"
        /\ (pc[t] \in {"exitwait", "kill"} /\ pc'[t] = "idle") =>
             /\ ~childProcess'.some
             /\ mutex' = 0
             /\ procs'[child[t]].state = "reaped"

C6_GracefulThenForced == []C6_Inv /\ [][C6_Act]_vars

C6_Witness ==
    \E t \in Threads :
        /\ ShutdownReturned(t)
        /\ hist[t].found # 0
        /\ ~hist[t].pollErr
        /\ procs[hist[t].found].exitedInTime
        /\ procs[hist[t].found].killedBy = "shutdown"

\* C7: a shutdown that finds no tracked child sends no signal, kills
\* nothing, leaves the slot empty and returns; of the shell's consecutive
\* shutdown calls every one after the first finds nothing tracked.
C7_Inv ==
    /\ ShutdownReturned(1) => ~childProcess.some /\ mutex = 0
    /\ (nShutdown >= 2 /\ hist[1].op = "shutdown") => hist[1].found = 0
    /\ (ShutdownReturned(1) /\ hist[1].found = 0) =>
         /\ result[1] = Unit
         /\ ~hist[1].term
         /\ child[1] = 0

C7_Act ==
    \A t \in Threads :
        (pc[t] = "lock" /\ pc'[t] # "lock" /\ ~childProcess.some) =>
            /\ procs' = procs
            /\ childProcess' = childProcess
            /\ mutex = 0 /\ mutex' = 0
            /\ pc'[t] = "idle"
            /\ result'[t] = Unit

C7_ShutdownIdempotent == []C7_Inv /\ [][C7_Act]_vars

C7_Witness ==
    /\ nShutdown = 2
    /\ ShutdownReturned(1)
    /\ hist[1].found = 0
    /\ procs # <<>>
    /\ procs[1].term

\* C8: a resolved base address that does not parse as a URL makes
\* bootstrap fail with InvalidBaseUrl carrying that string, before any
\* health check, discovery or spawn, and without a write of the slot.
C8_InvalidBaseUrl ==
    \A t \in Threads :
        hist[t].op = "bootstrap" =>
            /\ baseUrl[t] = resolve_base_url(cliArg, envBaseUrl, confText)
            /\ ~UrlParse(baseUrl[t]).some <=> result[t].kind = "InvalidBaseUrl"
            /\ result[t].kind = "InvalidBaseUrl" =>
                 /\ result[t].val = baseUrl[t]
                 /\ hist[t].path = <<"Unchecked", "Failed">>
                 /\ hist[t].checks = 0
                 /\ config[t] = NoConfig
                 /\ hist[t].spawns = 0
                 /\ child[t] = 0
                 /\ hist[t].stores = 0

C8_Witness ==
    \E t \in Threads :
        /\ result[t].kind = "InvalidBaseUrl"
        /\ result[t].val = <<"http://", ":", "4", "5", "6", "7">>

\* C9: after any error of bootstrap the shell's setup falls back to
\* fallback_base_url() and goes on to the main window; setup does not fail
\* on the address it fell back to.
C9_ShellProceedsOnError ==
    (hist[1].op = "bootstrap" /\ result[1].kind \in ErrorKinds) =>
        /\ shellPc # "parse_failed"
        /\ shellPc \in {"window", "running", "exited", "window_failed"} =>
             shellUrl = fallback_base_url(cliArg, envBaseUrl, confText)

\* C10: resolve_base_url returns the normalized command-line URL when the
\* first argument is present and normalizes; otherwise the normalized
\* SUWAYOMI_BASE_URL when it is present and normalizes; otherwise the
\* address built from the configuration file or the defaults.
C10_Expected ==
    IF cliArg.some /\ normalize_base_url(cliArg.val).some
    THEN normalize_base_url(cliArg.val).val
    ELSE IF envBaseUrl.some /\ normalize_base_url(envBaseUrl.val).some
         THEN normalize_base_url(envBaseUrl.val).val
         ELSE IF confText.some
              THEN LET c == parse_server_conf(confText.val)
                   IN build_base_url(c.ip, c.port, c.subpath)
              ELSE build_base_url(DEFAULT_IP, DEFAULT_PORT, <<>>)

C10_CliWins == cliArg \in {Some(UrlPlain), Some(UrlAnyAddr)}
C10_EnvWins == ~C10_CliWins /\ envBaseUrl \in {Some(UrlOther), Some(UrlAnyAddr)}

C10_Precedence ==
    nBootstrap > 0 =>
        /\ baseUrl[1] = C10_Expected
        /\ cliArg = Some(UrlPlain) => baseUrl[1] = <<"http://", "h", ":", "8">>
        /\ cliArg = Some(UrlAnyAddr) =>
             baseUrl[1] = <<"http://", "127.0.0.1", "/", "a">>
        /\ (~C10_CliWins /\ envBaseUrl = Some(UrlOther)) =>
             baseUrl[1] = <<"http://", "h", ":", "9", "/", "a">>
        /\ (~C10_CliWins /\ ~C10_EnvWins /\ ~confText.some) =>
             baseUrl[1] = <<"http://", "127.0.0.1", ":", "4", "5", "6", "7">>
        /\ (~C10_CliWins /\ ~C10_EnvWins /\ confText = Some(ConfFull)) =>
             baseUrl[1] =
               <<"http://", "127.0.0.1", ":", "8", "0", "8", "0", "/", "a">>

C10_Witness ==
    /\ nBootstrap > 0
    /\ cliArg = Some(UrlNoScheme)
    /\ envBaseUrl = Some(UrlOther)
    /\ confText = Some(ConfFull)
    /\ baseUrl[1] = <<"http://", "h", ":", "9", "/", "a">>

\* C11: find_runtime_paths returns the first root at which both the
\* interpreter and the payload exist; when no root has both it reports
\* MissingFile of the first missing interpreter path if any candidate lacked
\* its interpreter, otherwise MissingFile of the first missing payload path,
\* and MissingExecutable when the list is empty.
C11_Least(I) == CHOOSE i \in I : \A j \in I : i <= j

C11_FirstUsableRoot ==
    call.fn = "find_runtime_paths" =>
      LET roots == call.args[1]
          fs == call.args[2]
          idx == 1..Len(roots)
          hasJava(i) == (roots[i] \o <<"jre", "bin", "java">>) \in fs
          hasJar(i) == (roots[i] \o <<"bin", "Suwayomi-Server.jar">>) \in fs
          both == {i \in idx : hasJava(i) /\ hasJar(i)}
          noJava == {i \in idx : ~hasJava(i)}
          noJar == {i \in idx : ~hasJar(i)}
      IN /\ both # {} =>
              /\ call.out.kind = "Ok"
              /\ call.out.val.runtime_root = roots[C11_Least(both)]
              /\ call.out.val.java_bin =
                   roots[C11_Least(both)] \o <<"jre", "bin", "java">>
              /\ call.out.val.jar_file =
                   roots[C11_Least(both)] \o <<"bin", "Suwayomi-Server.jar">>
         /\ (both = {} /\ noJava # {}) =>
              call.out = Err("MissingFile",
                             roots[C11_Least(noJava)] \o <<"jre", "bin", "java">>)
         /\ (both = {} /\ noJava = {} /\ roots # <<>>) =>
              call.out = Err("MissingFile",
                             roots[C11_Least(noJar)]
                               \o <<"bin", "Suwayomi-Server.jar">>)
         /\ roots = <<>> => call.out = Err("MissingExecutable", <<>>)

\* Both candidate roots are usable: the first one is returned.
C11_Witness ==
    /\ call.fn = "find_runtime_paths"
    /\ call.args[1] = <<<<"res">>, <<"app">>>>
    /\ call.args[2] = {<<"res", "jre", "bin", "java">>,
                       <<"res", "bin", "Suwayomi-Server.jar">>,
                       <<"app", "jre", "bin", "java">>,
                       <<"app", "bin", "Suwayomi-Server.jar">>}
    /\ call.out.kind = "Ok"
    /\ call.out.val.runtime_root = <<"res">>

\* C12: wait_for_server returns true exactly when one of its health checks,
\* started before the timeout elapsed, succeeded; it returns false only once
\* the time elapsed since the start of the wait has reached the timeout;
\* until then it keeps checking, with at least one polling interval between
\* the starts of two checks.
C12_Inv ==
    \A t \in Threads :
        /\ pc[t] = "timeout" =>
             /\ elapsed[t] >= StartupTicks
             /\ ~procs[child[t]].waited
        /\ pc[t] = "store" => procs[child[t]].waited
        /\ pc[t] \in {"wait", "timeout", "store"} =>
             hist[t].checks <= 2 + StartupTicks

C12_Act ==
    \A t \in Threads :
        pc[t] = "wait" =>
          /\ pc'[t] = "timeout" =>
               /\ elapsed[t] >= StartupTicks
               /\ hist'[t].checks = hist[t].checks
          /\ pc'[t] = "store" =>
               /\ elapsed[t] < StartupTicks
               /\ hist'[t].checks = hist[t].checks + 1
               /\ procs'[child[t]].waited
          /\ (pc'[t] = "wait" /\ hist'[t] # hist[t]) =>
               /\ elapsed[t] < StartupTicks
               /\ hist'[t].checks = hist[t].checks + 1
               /\ elapsed'[t] >= elapsed[t] + 1
          /\ pc'[t] \in {"wait", "timeout", "store"}

C12_WaitUntilDeadline == []C12_Inv /\ [][C12_Act]_vars

\* A wait that checked at least once, never saw a healthy answer, and left
\* its loop at the timeout.
C12_Witness ==
    \E t \in Threads :
        /\ pc[t] = "timeout"
        /\ hist[t].checks >= 3
        /\ elapsed[t] = StartupTicks
        /\ ~procs[child[t]].waited

\* C13: build_base_url(ip, port, subpath) is "http://" followed by
\* normalize_ip(ip), ":", the port in decimal and normalize_subpath(subpath),
\* and never ends with a trailing slash.
C13_NoTrailingSlash ==
    call.fn = "build_base_url" =>
        /\ call.out = <<"http://">> \o normalize_ip(call.args[1]) \o <<":">>
                        \o FormatInt(call.args[2])
                        \o normalize_subpath(call.args[3])
        /\ call.out[Len(call.out)] # "/"

\* C14: normalize_subpath(s) is empty when s is "" or "/"; otherwise it is
\* s with surrounding whitespace trimmed and the trailing slash stripped,
\* behind exactly one leading slash.
C14_Body(s) == TrimEndMatches(Trim(s), "/")

C14_OneLeadingSlash ==
    call.fn = "normalize_subpath" =>
      LET s == call.args[1]
          out == call.out
      IN IF s = <<>> \/ s = <<"/">> THEN out = <<>>
         ELSE /\ out = (IF StartsWith(C14_Body(s), "/") THEN C14_Body(s)
                        ELSE <<"/">> \o C14_Body(s))
              /\ Len(out) >= 1
              /\ out[1] = "/"
              /\ Len(out) >= 2 => out[2] # "/"

\* C15: runtime_roots returns a list without duplicates: the resource
\* directory (when supplied), its resources subdirectory, the app directory
\* and its resources subdirectory, in that order, each path kept at its
\* first occurrence only.
RECURSIVE C15_KeepFirst(_, _)
C15_KeepFirst(list, i) ==
    IF i > Len(list) THEN <<>>
    ELSE LET rest == C15_KeepFirst(list, i + 1) IN
         IF \E j \in 1..(i - 1) : list[j] = list[i] THEN rest
         ELSE <<list[i]>> \o rest

C15_RootsOrderedUnique ==
    call.fn = "runtime_roots" =>
      LET rd == call.args[1]
          ad == call.args[2]
          out == call.out
          candidates ==
            (IF rd.some THEN <<rd.val, rd.val \o <<"resources">>>> ELSE <<>>)
              \o <<ad, ad \o <<"resources">>>>
      IN /\ out = C15_KeepFirst(candidates, 1)
         /\ \A i, j \in 1..Len(out) : out[i] = out[j] => i = j
         /\ rd.some => /\ out[1] = rd.val
                       /\ out[2] = rd.val \o <<"resources">>
         /\ \E i, j \in 1..Len(out) :
              /\ out[i] = ad
              /\ out[j] = ad \o <<"resources">>
              /\ ~rd.some => (i = 1 /\ j = 2)

\* The app directory is the resources subdirectory of the resource
\* directory: it is listed once.
C15_Witness ==
    /\ call.fn = "runtime_roots"
    /\ call.args = <<Some(<<"app">>), <<"app", "resources">>>>
    /\ call.out = <<<<"app">>, <<"app", "resources">>,
                    <<"app", "resources", "resources">>>>

\* C16: parse_server_conf treats the three keys independently: a matched
\* key overrides its own field only, an unmatched key keeps its default
\* (127.0.0.1, 4567, empty subpath), and a server.port whose digits exceed
\* 65535 is ignored, the ip and subpath of the same text being parsed as
\* usual.
C16_Only(content, k) == SelectSeq(content, LAMBDA l : l.key = k)

C16_Matches(content, k, allowEmpty) ==
    \E i \in 1..Len(content) :
        content[i].key = k /\ (allowEmpty \/ content[i].val # <<>>)

C16_KeysIndependent ==
    call.fn = "parse_server_conf" =>
      LET content == call.args[1]
          out == call.out
          ipOnly == parse_server_conf(C16_Only(content, "server.ip"))
          portOnly == parse_server_conf(C16_Only(content, "server.port"))
          subOnly == parse_server_conf(C16_Only(content, "server.webUISubpath"))
          ports == C16_Only(content, "server.port")
      IN /\ out.ip = ipOnly.ip
         /\ out.port = portOnly.port
         /\ out.subpath = subOnly.subpath
         /\ ipOnly.port = 4567 /\ ipOnly.subpath = <<>>
         /\ portOnly.ip = <<"127.0.0.1">> /\ portOnly.subpath = <<>>
         /\ subOnly.ip = <<"127.0.0.1">> /\ subOnly.port = 4567
         /\ ~C16_Matches(content, "server.ip", FALSE) => out.ip = <<"127.0.0.1">>
         /\ ~C16_Matches(content, "server.port", FALSE) => out.port = 4567
         /\ ~C16_Matches(content, "server.webUISubpath", TRUE) =>
              out.subpath = <<>>
         /\ (ports # <<>> /\ DigitsValue(ports[1].val) > 65535) =>
              out.port = 4567
         /\ (ports # <<>> /\ DigitsValue(ports[1].val) <= 65535) =>
              out.port = DigitsValue(ports[1].val)

\* The port 65536 is ignored while the ip of the same text is taken.
C16_Witness ==
    /\ call.fn = "parse_server_conf"
    /\ call.args[1] =
         <<ConfLine("server.port", <<"6", "5", "5", "3", "6">>),
           ConfLine("server.ip", <<" ", "h">>)>>
    /\ call.out.port = 4567
    /\ call.out.ip = <<"h">>
    /\ call.out.subpath = <<>>

\* C17: once the exit-event shutdown and the startup bootstrap have both
\* returned, whatever their interleaving, the slot is empty and no process
\* spawned by bootstrap is still running.
C17_NothingLeftAfterExit ==
    (/\ nBootstrap = 1 /\ BootstrapReturned(1) /\ pc[1] = "idle"
     /\ nShutdown = 1 /\ ShutdownReturned(2) /\ pc[2] = "idle") =>
        /\ childProcess = NoChild
        /\ \A p \in Pids : procs[p].state # "running"

\* C18: when bootstrap returns Ok, the returned base_url is the address
\* resolved at the start of the call, every health check of the call was
\* made against that address, and one of them succeeded in the call.
C18_Inv ==
    \A t \in Threads :
        /\ pc[t] \in {"health2", "spawn", "wait", "timeout", "store"} =>
             config[t].base_url = baseUrl[t]
        /\ (BootstrapReturned(t) /\ result[t].kind = "Ok") =>
             /\ result[t].val = baseUrl[t]
             /\ baseUrl[t] = resolve_base_url(cliArg, envBaseUrl, confText)
             /\ hist[t].checks >= 1
             /\ hist[t].path[Len(hist[t].path)] = "Ready"

C18_Act ==
    \A t \in Threads :
        (/\ hist[t].op = "bootstrap"
         /\ pc[t] # "idle"
         /\ pc'[t] = "idle"
         /\ result'[t].kind = "Ok") =>
            \/ /\ pc[t] = "health1"
               /\ hist'[t].checks = hist[t].checks + 1
               /\ result'[t].val = baseUrl[t]
            \/ /\ pc[t] = "health2"
               /\ hist'[t].checks = hist[t].checks + 1
               /\ result'[t].val = config[t].base_url
            \/ /\ pc[t] = "store"
               /\ procs[child[t]].waited
               /\ result'[t].val = config[t].base_url

C18_OkMeansHealthy == []C18_Inv /\ [][C18_Act]_vars

\* The command-line address wins, the first check fails, and the call
\* returns that address after the wait on the spawned server succeeded.
C18_Witness ==
    /\ cliArg = Some(UrlPlain)
    /\ BootstrapReturned(1)
    /\ result[1] = Ok(<<"http://", "h", ":", "8">>)
    /\ hist[1].first = "unhealthy"
    /\ hist[1].spawns = 1

\* C19: a bootstrap call that returns an error has not written the slot,
\* which is as it was before the call, and has spawned at most once; the
\* fallback_base_url call that follows touches neither the slot nor any
\* process and makes no health check.
C19_Inv ==
    (BootstrapReturned(1) /\ result[1].kind \in ErrorKinds) =>
        /\ childProcess = NoChild
        /\ hist[1].stores = 0
        /\ hist[1].spawns <= 1
        /\ Len(procs) <= hist[1].spawns

C19_Act ==
    /\ (hist[1].op = "bootstrap" /\ pc[1] \notin {"idle", "store"}) =>
         childProcess' = childProcess
    /\ (shellPc = "bootstrap" /\ shellPc' # shellPc
        /\ result[1].kind \in ErrorKinds) =>
         /\ shellUrl' = resolve_base_url(cliArg, envBaseUrl, confText)
         /\ childProcess' = childProcess
         /\ mutex' = mutex
         /\ procs' = procs
         /\ hist' = hist

C19_ErrorLeavesSlot == []C19_Inv /\ [][C19_Act]_vars

\* The call spawned once, timed out, and the shell has fallen back.
C19_Witness ==
    /\ BootstrapReturned(1)
    /\ result[1].kind = "StartupTimeout"
    /\ hist[1].spawns = 1
    /\ shellPc = "parse"
    /\ childProcess = NoChild

\* C20: every bootstrap call ends in Ready or Failed and every shutdown
\* call returns; the lock of the slot, once held, is released, so a
\* bootstrap waiting for it at its store goes on and returns.
C20_Terminates ==
    /\ \A t \in Threads : (pc[t] # "idle") ~> (pc[t] = "idle")
    /\ (mutex # 0) ~> (mutex = 0)
    /\ \A t \in Threads :
         (pc[t] = "store" /\ mutex # 0) ~> (BootstrapReturned(t) /\ pc[t] = "idle")
    /\ [](\A t \in Threads :
            (pc[t] = "idle" /\ hist[t].op = "bootstrap") =>
               /\ hist[t].path[Len(hist[t].path)] \in {"Ready", "Failed"}
               /\ result[t].kind \in ErrorKinds \cup {"Ok"})
    /\ [](\A t \in Threads :
            (pc[t] = "idle" /\ hist[t].op = "shutdown") =>
               (result[t] = Unit /\ mutex # t))

\* A bootstrap is at its store while a shutdown on the other thread holds
\* the lock and waits for the exit of the child it took.
C20_Witness ==
    \E t, u \in Threads :
        /\ pc[t] = "store"
        /\ mutex = u
        /\ pc[u] \in {"exitwait", "exitsleep"}

=============================================================================
